---------------------------- MODULE Spec2Model ----------------------------
(***************************************************************************)
(* Pioneer Market Analytics dashboard (src/Dashboard/app.py).              *)
(*                                                                         *)
(* The script is re-executed top to bottom on every change of the date     *)
(* inputs.  One run is modelled as a sequence of steps (pc), one per       *)
(* block of the script; an uncaught Python exception ends the run in       *)
(* pc = "fault", st.stop() ends it in pc = "stopped".                      *)
(*                                                                         *)
(* Conventions                                                             *)
(*   - a table (DataFrame) is a sequence of records, in row order;         *)
(*   - a nullable cell is <<>> (NaN / None) or <<v>>;                      *)
(*   - a date is the number of days since 2016-01-01 (min_date_allowed);   *)
(*   - a timestamp is the number of hours since 2016-01-01 00:00.          *)
(***************************************************************************)
EXTENDS Integers, Sequences, FiniteSets, TLC

VARIABLES
    cache,            \* return value of load_data(), kept by st.cache_data
    order_items,      \* the script's name order_items (rebound at line 100)
    orders_full,      \* master dataset, lines 45-52
    start_date,       \* sidebar input
    end_date,         \* sidebar input
    filtered_orders,  \* lines 82-85 (gains the column day_type at line 406)
    rfm,              \* lines 146-173
    daily_summary,    \* lines 371-377
    category_summary, \* lines 465-476, 550
    geo_summary,      \* lines 588-596, 698-730
    findings,         \* titles of the Key Insights messages, in order
    notices,          \* st.warning / st.info status messages outside Key Insights
    names,            \* module-level names bound so far in this run
    pc,               \* next block of the script to execute
    kpi,              \* the three st.metric values, lines 103-110
    fault,            \* exception that ended the run, "" if none
    fn                \* argument and result of a function applied on its own

vars == << cache, order_items, orders_full, start_date, end_date,
           filtered_orders, rfm, daily_summary, category_summary, geo_summary,
           findings, notices, names, pc, kpi, fault, fn >>

---------------------------------------------------------------------------
(* Bounds of the model *)

MaxOrders == 2
MaxCustomers == 7

---------------------------------------------------------------------------
(* Nullable cells and small helpers *)

Null == << >>
Some(v) == << v >>
IsNull(c) == c = << >>
Val(c) == c[1]

Range(s) == { s[i] : i \in 1..Len(s) }

RECURSIVE ConcatAll(_)
ConcatAll(ss) ==
    IF ss = << >> THEN << >> ELSE Head(ss) \o ConcatAll(Tail(ss))

RECURSIVE SumSeq(_)
SumSeq(s) ==
    IF s = << >> THEN 0 ELSE Head(s) + SumSeq(Tail(s))

RECURSIVE SetToSortedSeq(_)
SetToSortedSeq(S) ==
    IF S = {} THEN << >>
    ELSE LET m == CHOOSE x \in S : \A y \in S : x <= y
         IN  << m >> \o SetToSortedSeq(S \ {m})

Max(S) == CHOOSE x \in S : \A y \in S : y <= x

---------------------------------------------------------------------------
(* Calendar: dates are days since 2016-01-01, a Friday *)

HoursPerDay == 24
Ts(day, hour) == day * HoursPerDay + hour
DateOf(ts) == ts \div HoursPerDay
HourOf(ts) == ts % HoursPerDay

\* Timestamp.dayofweek: Monday = 0 ... Sunday = 6; 2016-01-01 is a Friday (4)
DayOfWeek(ts) == (DateOf(ts) + 4) % 7

DayNames ==
    << "Monday", "Tuesday", "Wednesday", "Thursday", "Friday", "Saturday", "Sunday" >>
DayName(ts) == DayNames[DayOfWeek(ts) + 1]

\* lengths of the months 2016-01 .. 2018-12 (2016 is a leap year)
MonthLengths ==
    << 31, 29, 31, 30, 31, 30, 31, 31, 30, 31, 30, 31,
       31, 28, 31, 30, 31, 30, 31, 31, 30, 31, 30, 31,
       31, 28, 31, 30, 31, 30, 31, 31, 30, 31, 30, 31 >>

RECURSIVE MonthIndex(_, _)
MonthIndex(d, k) ==
    IF k >= Len(MonthLengths) \/ d < MonthLengths[k] THEN k
    ELSE MonthIndex(d - MonthLengths[k], k + 1)

\* dt.to_period('M'): months since 2016-01, which orders as the period does
ToPeriodM(ts) == MonthIndex(DateOf(ts), 1) - 1

\* the dates the date inputs accept: 2016-01-01 .. 2018-12-31
min_date_allowed == 0
max_date_allowed == SumSeq(MonthLengths) - 1

---------------------------------------------------------------------------
(* Input data drawn for the model *)

\* 2017-01-06 10:00 (Friday), 2017-01-07 23:00 (Saturday), 2017-02-06 00:00 (Monday)
Timestamps == { Ts(371, 10), Ts(372, 23), Ts(402, 0) }

\* 2017-01-01, 2017-01-07, 2017-02-01, 2017-02-28
WindowDates == { 366, 372, 397, 424 }

CustomerUniqueIds == 1..MaxOrders
StateOf(u) == IF u % 2 = 1 THEN "SP" ELSE "RJ"

\* products_dataset.csv: product 2 has no category
products ==
    << [product_id |-> 1, product_category_name |-> Some("cat_a")],
       [product_id |-> 2, product_category_name |-> Null],
       [product_id |-> 3, product_category_name |-> Some("cat_b")] >>

\* an order line: product and price
ItemA == [product_id |-> 1, price |-> 100]
ItemB == [product_id |-> 2, price |-> 30]
ItemC == [product_id |-> 3, price |-> 50]

\* the lines of one order: none, one line, two lines
ItemLists == { << >>, << ItemA >>, << ItemB >>, << ItemA, ItemC >> }

\* customers are numbered in the order of their first order
FirstAppearance(cust) ==
    \A i \in DOMAIN cust : \A u \in 1..(cust[i] - 1) : \E j \in 1..(i - 1) : cust[j] = u

\* the three tables read by load_data for n orders
Dataset(n, cust, ts, items) ==
    [ customers |->
          [i \in 1..n |-> [customer_id |-> i, customer_unique_id |-> cust[i],
                           customer_state |-> StateOf(cust[i])]],
      orders |->
          [i \in 1..n |-> [order_id |-> i, customer_id |-> i,
                           order_purchase_timestamp |-> ts[i]]],
      order_items |->
          ConcatAll([i \in 1..n |->
              [j \in 1..Len(items[i]) |->
                  [order_id |-> i, product_id |-> items[i][j].product_id,
                   price |-> items[i][j].price]]]) ]

---------------------------------------------------------------------------
(* DataFrame operations *)

\* left.merge(right, how='left'): every left row, once per matching right row,
\* in the order of the left rows; a left row without a match is kept once
LeftMerge(left, right, Match(_, _), Combine(_, _), NoMatch(_)) ==
    ConcatAll([i \in 1..Len(left) |->
        LET ms == SelectSeq(right, LAMBDA r : Match(left[i], r))
        IN  IF ms = << >> THEN << NoMatch(left[i]) >>
            ELSE [j \in 1..Len(ms) |-> Combine(left[i], ms[j])]])

GroupRows(df, Key(_), k) == SelectSeq(df, LAMBDA r : Key(r) = Some(k))

\* the keys of groupby(col): distinct non-null values, sorted (dropna=True, sort=True)
GroupKeys(df, Key(_)) ==
    SetToSortedSeq({ Val(Key(df[i])) : i \in { k \in 1..Len(df) : ~IsNull(Key(df[k])) } })

\* the same for a text column, whose values are listed in alphabetical order
GroupKeysText(df, Key(_), alphabetical) ==
    SelectSeq(alphabetical, LAMBDA k : \E i \in 1..Len(df) : Key(df[i]) = Some(k))

\* groupby(col).size(): one entry per key, the number of its rows
GroupSize(df, Key(_), keys) ==
    [g \in 1..Len(keys) |->
        [key |-> keys[g], size |-> Len(GroupRows(df, Key, keys[g]))]]


\* Series.sum(): missing values are skipped
SumSkipNa(cells) ==
    SumSeq([i \in 1..Len(cells) |-> IF IsNull(cells[i]) THEN 0 ELSE Val(cells[i])])

\* Series.nunique(): missing values are not counted
NUnique(cells) == Cardinality({ cells[i] : i \in 1..Len(cells) } \ { Null })

Column(df, Cell(_)) == [i \in 1..Len(df) |-> Cell(df[i])]

\* a ratio of two integers, kept exact; den = 0 is the float nan or inf
Ratio(n, d) == [num |-> n, den |-> d]

---------------------------------------------------------------------------
(* DATA PREPARATION and BUILD MASTER DATASET, lines 41-52 *)

orders_customers ==
    LeftMerge(cache.orders, cache.customers,
              LAMBDA o, c : o.customer_id = c.customer_id,
              LAMBDA o, c : [order_id |-> o.order_id,
                             customer_id |-> o.customer_id,
                             order_purchase_timestamp |-> o.order_purchase_timestamp,
                             customer_unique_id |-> Some(c.customer_unique_id),
                             customer_state |-> Some(c.customer_state)],
              LAMBDA o : [order_id |-> o.order_id,
                          customer_id |-> o.customer_id,
                          order_purchase_timestamp |-> o.order_purchase_timestamp,
                          customer_unique_id |-> Null,
                          customer_state |-> Null])

CategoryOf(pid) ==
    IF IsNull(pid) \/ ~\E i \in 1..Len(products) : products[i].product_id = Val(pid)
    THEN Null
    ELSE LET i == CHOOSE k \in 1..Len(products) : products[k].product_id = Val(pid)
         IN  products[i].product_category_name

BuildOrdersFull ==
    LET with_items ==
            LeftMerge(orders_customers, cache.order_items,
                      LAMBDA o, it : o.order_id = it.order_id,
                      LAMBDA o, it : [o EXCEPT !.customer_id = o.customer_id] @@
                                     [product_id |-> Some(it.product_id),
                                      price |-> Some(it.price)],
                      LAMBDA o : o @@ [product_id |-> Null, price |-> Null])
    IN  [i \in 1..Len(with_items) |->
            with_items[i] @@
            [product_category_name |-> CategoryOf(with_items[i].product_id),
             revenue |-> with_items[i].price]]

---------------------------------------------------------------------------
(* The state of a run before its first statement *)

NoKpi == [total_revenue |-> 0, total_orders |-> 0, total_customers |-> 0]
NoFn == [op |-> "none", arg |-> << >>, out |-> << >>, done |-> FALSE]

RunReset ==
    /\ order_items = << >>
    /\ orders_full = << >>
    /\ start_date = min_date_allowed
    /\ end_date = max_date_allowed
    /\ filtered_orders = << >>
    /\ rfm = << >>
    /\ daily_summary = << >>
    /\ category_summary = << >>
    /\ geo_summary = << >>
    /\ findings = << >>
    /\ notices = << >>
    /\ names = {}
    /\ kpi = NoKpi
    /\ fault = ""

Init ==
    /\ \E n \in 1..MaxOrders :
         \E cust \in [1..n -> CustomerUniqueIds], ts \in [1..n -> Timestamps],
            items \in [1..n -> ItemLists] :
             /\ FirstAppearance(cust)
             /\ cache = Dataset(n, cust, ts, items)
    /\ RunReset
    /\ pc = "load"
    /\ fn = NoFn

\* lines 35-52: load_data() answers from the cache, then the master dataset is built
BuildMaster ==
    /\ pc = "load"
    /\ order_items' = cache.order_items
    /\ orders_full' = BuildOrdersFull
    /\ names' = names \cup { "order_items", "orders_full" }
    /\ pc' = "sidebar"
    /\ UNCHANGED << cache, start_date, end_date, filtered_orders, rfm, daily_summary,
                    category_summary, geo_summary, findings, notices, kpi, fault, fn >>

RangeWarning == "Periode awal tidak boleh melebihi periode akhir"

\* the range check without its st.stop(): the warning is shown and the run goes on
Sidebar_no_stop ==
    /\ pc = "sidebar"
    /\ \E s \in WindowDates, e \in WindowDates :
         /\ start_date' = s
         /\ end_date' = e
         /\ notices' = IF s > e THEN Append(notices, RangeWarning) ELSE notices
    /\ pc' = "filter"
    /\ names' = names \cup { "start_date", "end_date" }
    /\ UNCHANGED << cache, order_items, orders_full, filtered_orders, rfm, daily_summary,
                    category_summary, geo_summary, findings, kpi, fault, fn >>

\* lines 54-78: the two date inputs and the range check
Sidebar ==
    /\ pc = "sidebar"
    /\ \E s \in WindowDates, e \in WindowDates :
         /\ s >= min_date_allowed /\ s <= max_date_allowed
         /\ e >= min_date_allowed /\ e <= max_date_allowed
         /\ start_date' = s
         /\ end_date' = e
         /\ IF s > e
            THEN /\ notices' = Append(notices, RangeWarning)
                 /\ pc' = "stopped"
            ELSE /\ notices' = notices
                 /\ pc' = "filter"
    /\ names' = names \cup { "start_date", "end_date" }
    /\ UNCHANGED << cache, order_items, orders_full, filtered_orders, rfm, daily_summary,
                    category_summary, geo_summary, findings, kpi, fault, fn >>

\* the comparison made on the timestamp, the two dates taken at midnight
InWindow_by_timestamp(r, s, e) ==
    /\ r.order_purchase_timestamp >= s * HoursPerDay
    /\ r.order_purchase_timestamp <= e * HoursPerDay

\* lines 81-95
InWindow(r, s, e) ==
    /\ DateOf(r.order_purchase_timestamp) >= s
    /\ DateOf(r.order_purchase_timestamp) <= e

FilterData ==
    /\ pc = "filter"
    /\ filtered_orders' = SelectSeq(orders_full, LAMBDA r : InWindow(r, start_date, end_date))
    /\ notices' = Append(notices,
                         IF filtered_orders' = << >> THEN "Tidak ada transaksi"
                         ELSE "Analisis mencakup periode")
    /\ names' = names \cup { "filtered_orders" }
    /\ pc' = "kpi"
    /\ UNCHANGED << cache, order_items, orders_full, start_date, end_date, rfm,
                    daily_summary, category_summary, geo_summary, findings, kpi,
                    fault, fn >>

\* line 100: filtered_orders.merge(order_items, on='order_id', how='left');
\* the columns the two tables share get the suffixes _x and _y
ReMerge(filtered, items) ==
    LET Left(o) == [order_id |-> o.order_id,
                    customer_id |-> o.customer_id,
                    order_purchase_timestamp |-> o.order_purchase_timestamp,
                    customer_unique_id |-> o.customer_unique_id,
                    customer_state |-> o.customer_state,
                    product_id_x |-> o.product_id,
                    price_x |-> o.price,
                    product_category_name |-> o.product_category_name]
    IN  LeftMerge(filtered, items,
                  LAMBDA o, it : o.order_id = it.order_id,
                  LAMBDA o, it : Left(o) @@ [product_id_y |-> Some(it.product_id),
                                             price_y |-> Some(it.price)],
                  LAMBDA o : Left(o) @@ [product_id_y |-> Null, price_y |-> Null])

\* line 101: order_items['revenue'] = order_items['price_x'].fillna(0)
FillRevenue(df) ==
    [i \in 1..Len(df) |->
        df[i] @@ [revenue |-> IF IsNull(df[i].price_x) THEN 0 ELSE Val(df[i].price_x)]]

\* lines 97-110
KpiSummary ==
    /\ pc = "kpi"
    /\ IF filtered_orders # << >>
       THEN /\ order_items' = FillRevenue(ReMerge(filtered_orders, order_items))
            /\ kpi' = [total_revenue |->
                           SumSeq(Column(order_items', LAMBDA r : r.revenue)),
                       total_orders |->
                           NUnique(Column(filtered_orders, LAMBDA r : Some(r.order_id))),
                       total_customers |->
                           NUnique(Column(filtered_orders, LAMBDA r : r.customer_unique_id))]
       ELSE UNCHANGED << order_items, kpi >>
    /\ pc' = "tab1"
    /\ UNCHANGED << cache, orders_full, start_date, end_date, filtered_orders, rfm,
                    daily_summary, category_summary, geo_summary, findings, notices,
                    names, fault, fn >>


---------------------------------------------------------------------------
(* RFM scoring, lines 157-173 *)

\* Series.rank(method='min'): tied values share their lowest rank
Rank_min(col) ==
    [i \in 1..Len(col) |-> 1 + Cardinality({ j \in 1..Len(col) : col[j] < col[i] })]

\* Series.rank(method='first'): ascending, ties ranked in row order
Rank(col) ==
    [i \in 1..Len(col) |->
        1 + Cardinality({ j \in 1..Len(col) : col[j] < col[i] })
          + Cardinality({ j \in 1..(i - 1) : col[j] = col[i] })]

\* the quantile with interpolation='higher': the upper of the two neighbours
Quantile_higher(s, k, q) ==
    LET h == (Len(s) - 1) * k
        lo == h \div q
    IN  IF h % q = 0 THEN q * s[lo + 1] ELSE q * s[lo + 2]

\* q times the k/q quantile of the sorted values s, linear interpolation:
\* position (n-1)*k/q between the two neighbouring values
Quantile(s, k, q) ==
    LET h == (Len(s) - 1) * k
        lo == h \div q
        rem == h % q
    IN  IF rem = 0 THEN q * s[lo + 1]
        ELSE q * s[lo + 1] + rem * (s[lo + 2] - s[lo + 1])

\* pd.qcut(x, q, labels=False): the bin edges are the quantiles 0/q .. q/q; equal
\* edges raise ValueError (duplicates='raise'); a value lies in bin (e[k-1], e[k]],
\* the lowest value in the first bin.  Codes are 0 .. q-1.
qcut(x, q) ==
    LET s == SortSeq(x, LAMBDA a, b : a < b)
        bins == [k \in 0..q |-> IF x = << >> THEN 0 ELSE Quantile(s, k, q)]
        ids(v) == IF q * v = bins[0] THEN 1
                  ELSE Cardinality({ k \in 0..q : bins[k] < q * v })
    IN  IF \E a, b \in 0..q : a # b /\ bins[a] = bins[b]
        THEN [error |-> "ValueError", codes |-> << >>]
        ELSE [error |-> "", codes |-> [i \in 1..Len(x) |-> ids(x[i]) - 1]]

\* pd.qcut(col.rank(method='first'), 4, labels=False) + 1
Score(col) ==
    LET c == qcut(Rank(col), 4)
    IN  [error |-> c.error, scores |-> [i \in 1..Len(c.codes) |-> c.codes[i] + 1]]

\* the rule with its first two tests in the other order
rfm_segment_loyal_first(row) ==
    IF row.R_score >= 3 /\ row.F_score >= 2 THEN "Loyal Customers"
    ELSE IF row.R_score >= 3 /\ row.F_score >= 3 /\ row.M_score >= 3 THEN "Champions"
    ELSE IF row.R_score >= 3 THEN "Potential Loyalists"
    ELSE IF row.R_score = 2 THEN "Need Attention"
    ELSE "Lost Customers"

\* the rule with the monetary test of its first line left out
rfm_segment_no_monetary(row) ==
    IF row.R_score >= 3 /\ row.F_score >= 3 THEN "Champions"
    ELSE IF row.R_score >= 3 /\ row.F_score >= 2 THEN "Loyal Customers"
    ELSE IF row.R_score >= 3 THEN "Potential Loyalists"
    ELSE IF row.R_score = 2 THEN "Need Attention"
    ELSE "Lost Customers"

\* lines 161-171
rfm_segment(row) ==
    IF row.R_score >= 3 /\ row.F_score >= 3 /\ row.M_score >= 3 THEN "Champions"
    ELSE IF row.R_score >= 3 /\ row.F_score >= 2 THEN "Loyal Customers"
    ELSE IF row.R_score >= 3 THEN "Potential Loyalists"
    ELSE IF row.R_score = 2 THEN "Need Attention"
    ELSE "Lost Customers"

\* line 144
SnapshotDate(filtered) ==
    Max({ filtered[i].order_purchase_timestamp : i \in 1..Len(filtered) }) + HoursPerDay

\* lines 146-155: one row per customer_unique_id of the re-merged table
RfmTable(items, snapshot_date) ==
    LET keys == GroupKeys(items, LAMBDA r : r.customer_unique_id)
    IN  [g \in 1..Len(keys) |->
            LET rows == GroupRows(items, LAMBDA r : r.customer_unique_id, keys[g])
            IN  [customer_unique_id |-> keys[g],
                 recency |->
                     (snapshot_date
                        - Max({ rows[i].order_purchase_timestamp : i \in 1..Len(rows) }))
                     \div HoursPerDay,
                 frequency |-> NUnique(Column(rows, LAMBDA r : Some(r.order_id))),
                 monetary |-> SumSeq(Column(rows, LAMBDA r : r.revenue))]]

\* lines 157-173, when none of the three qcut calls raises
Scored(t) ==
    LET R == Score(Column(t, LAMBDA r : r.recency)).scores
        F == Score(Column(t, LAMBDA r : r.frequency)).scores
        M == Score(Column(t, LAMBDA r : r.monetary)).scores
    IN  [i \in 1..Len(t) |->
            LET row == t[i] @@ [R_score |-> R[i], F_score |-> F[i], M_score |-> M[i]]
            IN  row @@ [Segment |-> rfm_segment(row)]]

\* TAB 1, lines 139-240
Tab1 ==
    /\ pc = "tab1"
    /\ IF filtered_orders # << >>
       THEN LET t == RfmTable(order_items, SnapshotDate(filtered_orders))
                raised == \/ Score(Column(t, LAMBDA r : r.recency)).error # ""
                          \/ Score(Column(t, LAMBDA r : r.frequency)).error # ""
                          \/ Score(Column(t, LAMBDA r : r.monetary)).error # ""
            IN  /\ names' = names \cup { "snapshot_date", "rfm" }
                /\ IF raised
                   THEN /\ rfm' = t
                        /\ fault' = "ValueError"
                        /\ pc' = "fault"
                   ELSE /\ rfm' = Scored(t)
                        /\ fault' = fault
                        /\ pc' = "tab1_insights"
                /\ notices' = notices
       ELSE /\ notices' = Append(notices, "Data tidak tersedia untuk analisis segmentasi.")
            /\ pc' = "tab1_insights"
            /\ UNCHANGED << rfm, names, fault >>
    /\ UNCHANGED << cache, order_items, orders_full, start_date, end_date,
                    filtered_orders, daily_summary, category_summary, geo_summary,
                    findings, kpi, fn >>

\* the five segments, in the order groupby('Segment') lists them
SegmentNames ==
    << "Champions", "Lost Customers", "Loyal Customers", "Need Attention",
       "Potential Loyalists" >>

\* lines 249-260
SegmentSummary(t) ==
    LET keys == GroupKeysText(t, LAMBDA r : Some(r.Segment), SegmentNames)
        total_customers == Len(t)
        total_revenue == SumSeq(Column(t, LAMBDA r : r.monetary))
    IN  [g \in 1..Len(keys) |->
            LET rows == GroupRows(t, LAMBDA r : Some(r.Segment), keys[g])
                revenue == SumSeq(Column(rows, LAMBDA r : r.monetary))
            IN  [Segment |-> keys[g],
                 customers |-> Len(rows),
                 revenue |-> revenue,
                 customer_pct |-> Ratio(Len(rows) * 100, total_customers),
                 revenue_pct |-> Ratio(revenue * 100, total_revenue)]]

\* KEY INSIGHTS of tab 1, lines 243-296
Tab1Insights ==
    /\ pc = "tab1_insights"
    /\ IF "rfm" \notin names
       THEN /\ fault' = "NameError"
            /\ pc' = "fault"
            /\ UNCHANGED << findings, names >>
       ELSE LET segment_summary == SegmentSummary(rfm)
                lost_segment ==
                    SelectSeq(segment_summary, LAMBDA r : r.Segment = "Lost Customers")
                potential_segment ==
                    SelectSeq(segment_summary,
                              LAMBDA r : r.Segment \in { "Potential Loyalists",
                                                         "Need Attention" })
            IN  IF segment_summary = << >>
                THEN /\ fault' = "IndexError"
                     /\ pc' = "fault"
                     /\ names' = names \cup { "segment_summary" }
                     /\ findings' = findings
                ELSE
                /\ findings' =
                       findings \o << "Revenue Concentration" >>
                       \o (IF lost_segment # << >>
                           THEN << "Customer Attrition Risk" >> ELSE << >>)
                       \o (IF potential_segment # << >>
                           THEN << "Growth Opportunity" >> ELSE << >>)
                /\ names' = names \cup { "segment_summary" }
                /\ pc' = "tab2"
                /\ fault' = fault
    /\ UNCHANGED << cache, order_items, orders_full, start_date, end_date,
                    filtered_orders, rfm, daily_summary, category_summary,
                    geo_summary, notices, kpi, fn >>

---------------------------------------------------------------------------
(* TAB 2: TEMPORAL INSIGHTS *)

\* alphabetical order of the day names, the order groupby lists them in
DayNamesSorted ==
    << "Friday", "Monday", "Saturday", "Sunday", "Thursday", "Tuesday", "Wednesday" >>

\* Series.reindex(labels): the entry of each label, NaN for a label without one
Reindex(series, labels) ==
    [d \in 1..Len(labels) |->
        LET hit == SelectSeq(series, LAMBDA e : e.key = labels[d])
        IN  [key |-> labels[d],
             value |-> IF hit = << >> THEN Null ELSE Some(hit[1].size)]]

\* lines 306-313 and 371-377
DailySummary(filtered) ==
    LET Key(r) == Some(DayName(r.order_purchase_timestamp))
        by_day == GroupSize(filtered, Key, GroupKeysText(filtered, Key, DayNamesSorted))
        days == Reindex(by_day, DayNames)
    IN  [d \in 1..Len(days) |->
            [order_purchase_timestamp |-> days[d].key,
             Total_Transactions |-> days[d].value]]

\* lines 346-351 and 434-439
MonthlySummary(filtered) ==
    LET Key(r) == Some(ToPeriodM(r.order_purchase_timestamp))
    IN  GroupSize(filtered, Key, GroupKeys(filtered, Key))

\* lines 406-415
DayType(r) == IF DayOfWeek(r.order_purchase_timestamp) >= 5 THEN "Weekend" ELSE "Weekday"

DayTypeSummary(filtered) ==
    LET Key(r) == Some(r.day_type)
    IN  GroupSize(filtered, Key, GroupKeysText(filtered, Key, << "Weekday", "Weekend" >>))

\* lines 299-364
Tab2 ==
    /\ pc = "tab2"
    /\ IF filtered_orders # << >>
       THEN /\ names' = names \cup { "daily", "hourly", "monthly" }
            /\ notices' = notices
       ELSE /\ notices' = Append(notices, "Tidak ada data untuk analisis temporal.")
            /\ names' = names
    /\ pc' = "tab2_insights"
    /\ UNCHANGED << cache, order_items, orders_full, start_date, end_date,
                    filtered_orders, rfm, daily_summary, category_summary,
                    geo_summary, findings, kpi, fault, fn >>

\* the Weekend / Weekday finding and the monthly trend, lines 417-457
DayTypeFindings(with_type) ==
    LET day_type_summary == DayTypeSummary(with_type)
        weekend == SelectSeq(day_type_summary, LAMBDA e : e.key = "Weekend")
        weekday == SelectSeq(day_type_summary, LAMBDA e : e.key = "Weekday")
    IN  IF weekend = << >> \/ weekday = << >> THEN << >>
        ELSE IF weekend[1].size > weekday[1].size
             THEN << "Weekend-Dominant Behavior" >>
             ELSE << "Weekday-Dominant Behavior" >>

TrendFindings(filtered) ==
    LET monthly_summary == MonthlySummary(filtered)
        n == Len(monthly_summary)
    IN  IF n >= 2
        THEN IF monthly_summary[n].size - monthly_summary[n - 1].size > 0
             THEN << "Positive Momentum" >>
             ELSE << "Demand Slowdown Signal" >>
        ELSE << >>

\* KEY INSIGHTS of tab 2, lines 367-457
Tab2Insights ==
    /\ pc = "tab2_insights"
    /\ daily_summary' = DailySummary(filtered_orders)
    /\ LET with_type ==
               [i \in 1..Len(filtered_orders) |->
                   filtered_orders[i] @@ [day_type |-> DayType(filtered_orders[i])]]
           day_types == { with_type[i].day_type : i \in 1..Len(with_type) }
       IN  IF filtered_orders = << >>
           THEN \* idxmax of a column of NaN, line 379
                /\ fault' = "KeyError"
                /\ pc' = "fault"
                /\ names' = names \cup { "daily_summary" }
                /\ UNCHANGED << findings, filtered_orders >>
           ELSE IF day_types # { "Weekend", "Weekday" }
           THEN \* .values[0] of an empty selection, lines 417-418
                /\ findings' =
                       findings \o << "Peak Transaction Day", "Peak Operating Hour" >>
                /\ filtered_orders' = with_type
                /\ fault' = "IndexError"
                /\ pc' = "fault"
                /\ names' = names \cup { "daily_summary", "peak_day", "hourly_summary",
                                         "peak_hour", "day_type_summary" }
           ELSE /\ findings' =
                       findings \o << "Peak Transaction Day", "Peak Operating Hour" >>
                       \o DayTypeFindings(with_type) \o TrendFindings(with_type)
                /\ filtered_orders' = with_type
                /\ fault' = fault
                /\ pc' = "tab3"
                /\ names' = names \cup { "daily_summary", "peak_day", "hourly_summary",
                                         "peak_hour", "day_type_summary", "weekend",
                                         "weekday", "monthly_summary" }
    /\ UNCHANGED << cache, order_items, orders_full, start_date, end_date, rfm,
                    category_summary, geo_summary, notices, kpi, fn >>

---------------------------------------------------------------------------
(* TAB 3: CATEGORY OVERVIEW *)

CategoryNames == << "cat_a", "cat_b" >>

\* lines 465-476: grouped over orders_full, rows without a category left out
CategorySummary(df) ==
    LET Key(r) == r.product_category_name
        keys == GroupKeysText(df, Key, CategoryNames)
    IN  [g \in 1..Len(keys) |->
            LET rows == GroupRows(df, Key, keys[g])
                revenue == SumSkipNa(Column(rows, LAMBDA r : r.revenue))
                total_orders == NUnique(Column(rows, LAMBDA r : Some(r.order_id)))
            IN  [product_category_name |-> keys[g],
                 revenue |-> revenue,
                 total_orders |-> total_orders,
                 product_count |-> NUnique(Column(rows, LAMBDA r : r.product_id)),
                 AOV |-> Ratio(revenue, total_orders)]]

\* lines 460-542
Tab3 ==
    /\ pc = "tab3"
    /\ IF orders_full # << >>
       THEN /\ category_summary' = CategorySummary(orders_full)
            /\ names' = names \cup { "category_summary", "top_products" }
            /\ notices' = notices
       ELSE /\ notices' = Append(notices, "Data produk tidak tersedia.")
            /\ UNCHANGED << category_summary, names >>
    /\ pc' = "tab3_insights"
    /\ UNCHANGED << cache, order_items, orders_full, start_date, end_date,
                    filtered_orders, rfm, daily_summary, geo_summary, findings,
                    kpi, fault, fn >>

\* lines 548-550
WithRevenuePct(summary) ==
    LET total_revenue == SumSeq(Column(summary, LAMBDA r : r.revenue))
    IN  [i \in 1..Len(summary) |->
            summary[i] @@ [revenue_pct |-> Ratio(summary[i].revenue * 100, total_revenue)]]

\* CATEGORY INSIGHTS, lines 545-579
Tab3Insights ==
    /\ pc = "tab3_insights"
    /\ IF "category_summary" \notin names
       THEN /\ fault' = "NameError"
            /\ pc' = "fault"
            /\ UNCHANGED << category_summary, findings >>
       ELSE /\ category_summary' = WithRevenuePct(category_summary)
            /\ IF category_summary = << >>
               THEN \* .iloc[0] of an empty table, line 553
                    /\ fault' = "IndexError"
                    /\ pc' = "fault"
                    /\ findings' = findings
               ELSE /\ findings' = findings \o << "Revenue Driver",
                                                  "Portfolio Concentration",
                                                  "High-Value Transactions" >>
                    /\ fault' = fault
                    /\ pc' = "tab4"
    /\ UNCHANGED << cache, order_items, orders_full, start_date, end_date,
                    filtered_orders, rfm, daily_summary, geo_summary, notices,
                    names, kpi, fn >>

---------------------------------------------------------------------------
(* TAB 4: GEOSPATIAL INSIGHTS *)

StateNames == << "RJ", "SP" >>

\* lines 588-596
GeoSummary(filtered) ==
    LET Key(r) == r.customer_state
        keys == GroupKeysText(filtered, Key, StateNames)
    IN  [g \in 1..Len(keys) |->
            LET rows == GroupRows(filtered, Key, keys[g])
            IN  [customer_state |-> keys[g],
                 total_revenue |-> SumSkipNa(Column(rows, LAMBDA r : r.revenue)),
                 total_orders |-> NUnique(Column(rows, LAMBDA r : Some(r.order_id))),
                 total_customers |->
                     NUnique(Column(rows, LAMBDA r : r.customer_unique_id))]]

\* lines 583-688
Tab4 ==
    /\ pc = "tab4"
    /\ IF filtered_orders # << >>
       THEN /\ geo_summary' = GeoSummary(filtered_orders)
            /\ names' = names \cup { "geo_summary", "geo_kpi" }
       ELSE UNCHANGED << geo_summary, names >>
    /\ pc' = "tab4_insights"
    /\ UNCHANGED << cache, order_items, orders_full, start_date, end_date,
                    filtered_orders, rfm, daily_summary, category_summary, findings,
                    notices, kpi, fault, fn >>

\* lines 695-730
WithGeoRatios(summary) ==
    LET total_revenue == SumSeq(Column(summary, LAMBDA r : r.total_revenue))
        total_orders == SumSeq(Column(summary, LAMBDA r : r.total_orders))
    IN  [i \in 1..Len(summary) |->
            summary[i] @@
            [revenue_pct |-> Ratio(summary[i].total_revenue * 100, total_revenue),
             order_pct |-> Ratio(summary[i].total_orders * 100, total_orders),
             revenue_per_order |->
                 Ratio(summary[i].total_revenue, summary[i].total_orders)]]

\* GEOGRAPHIC INSIGHTS, lines 691-740
Tab4Insights ==
    /\ pc = "tab4_insights"
    /\ IF "geo_summary" \notin names
       THEN /\ fault' = "NameError"
            /\ pc' = "fault"
            /\ UNCHANGED << geo_summary, findings >>
       ELSE /\ geo_summary' = WithGeoRatios(geo_summary)
            /\ IF geo_summary = << >>
               THEN \* .iloc[0] of an empty table, line 702
                    /\ fault' = "IndexError"
                    /\ pc' = "fault"
                    /\ findings' = findings
               ELSE /\ findings' = findings \o << "Revenue Stronghold",
                                                  "Transaction Hotspot",
                                                  "Behavioral Gap Across Regions" >>
                    /\ fault' = fault
                    /\ pc' = "done"
    /\ UNCHANGED << cache, order_items, orders_full, start_date, end_date,
                    filtered_orders, rfm, daily_summary, category_summary, notices,
                    names, kpi, fn >>

---------------------------------------------------------------------------
(* A change of a date input runs the script again from its first line *)

Rerun ==
    /\ pc \in { "done", "stopped", "fault" }
    /\ order_items' = << >>
    /\ orders_full' = << >>
    /\ start_date' = min_date_allowed
    /\ end_date' = max_date_allowed
    /\ filtered_orders' = << >>
    /\ rfm' = << >>
    /\ daily_summary' = << >>
    /\ category_summary' = << >>
    /\ geo_summary' = << >>
    /\ findings' = << >>
    /\ notices' = << >>
    /\ names' = {}
    /\ kpi' = NoKpi
    /\ fault' = ""
    /\ pc' = "load"
    /\ UNCHANGED << cache, fn >>

Next ==
    \/ BuildMaster
    \/ Sidebar
    \/ FilterData
    \/ KpiSummary
    \/ Tab1
    \/ Tab1Insights
    \/ Tab2
    \/ Tab2Insights
    \/ Tab3
    \/ Tab3Insights
    \/ Tab4
    \/ Tab4Insights
    \/ Rerun

Spec == Init /\ [][Next]_vars

---------------------------------------------------------------------------
(* The scoring of one column and the segment rule, applied on their own to     *)
(* tables larger than the ones the runs above build                            *)

\* raw values of the three metrics
RecencyValues == { 1, 5, 10, 20 }
FrequencyValues == { 1, 2 }
MonetaryValues == { 0, 100, 250 }

\* a column of the RFM table of n customers; the customer of the latest
\* purchase has recency 1 (snapshot_date is that purchase plus one day)
RfmColumns(n) ==
    { [metric |-> "recency", col |-> c] :
          c \in { x \in [1..n -> RecencyValues] : \E i \in 1..n : x[i] = 1 } }
    \cup { [metric |-> "frequency", col |-> c] : c \in [1..n -> FrequencyValues] }
    \cup { [metric |-> "monetary", col |-> c] : c \in [1..n -> MonetaryValues] }

ScoreTriples ==
    { [R_score |-> r, F_score |-> f, M_score |-> m] : r \in 1..4, f \in 1..4, m \in 1..4 }

InitFn ==
    /\ cache = [customers |-> << >>, orders |-> << >>, order_items |-> << >>]
    /\ RunReset
    /\ pc = "fn"
    /\ \/ \E n \in 1..MaxCustomers : \E a \in RfmColumns(n) :
              fn = [op |-> "score", arg |-> a, out |-> << >>, done |-> FALSE]
       \/ \E t \in ScoreTriples :
              fn = [op |-> "segment", arg |-> t, out |-> << >>, done |-> FALSE]

\* lines 157-159, one column
ApplyScore ==
    /\ pc = "fn"
    /\ fn.op = "score"
    /\ ~fn.done
    /\ fn' = [fn EXCEPT !.out = Score(fn.arg.col), !.done = TRUE]
    /\ UNCHANGED << cache, order_items, orders_full, start_date, end_date,
                    filtered_orders, rfm, daily_summary, category_summary,
                    geo_summary, findings, notices, names, pc, kpi, fault >>

\* line 173, one row
ApplySegment ==
    /\ pc = "fn"
    /\ fn.op = "segment"
    /\ ~fn.done
    /\ fn' = [fn EXCEPT !.out = rfm_segment(fn.arg), !.done = TRUE]
    /\ UNCHANGED << cache, order_items, orders_full, start_date, end_date,
                    filtered_orders, rfm, daily_summary, category_summary,
                    geo_summary, findings, notices, names, pc, kpi, fault >>

NextFn == ApplyScore \/ ApplySegment

SpecFn == InitFn /\ [][NextFn]_vars

---------------------------------------------------------------------------
(* Properties *)

WindowIsEmpty == "filtered_orders" \in names /\ filtered_orders = << >>
WindowIsNonEmpty == "filtered_orders" \in names /\ filtered_orders # << >>

\* revenue of the enriched rows of the window, a missing price counted as 0
WindowRows(u) == SelectSeq(filtered_orders, LAMBDA r : r.customer_unique_id = Some(u))
WindowRevenue(rows) == SumSkipNa(Column(rows, LAMBDA r : r.revenue))
WindowCustomers ==
    { Val(filtered_orders[i].customer_unique_id) :
          i \in { k \in 1..Len(filtered_orders) :
                      ~IsNull(filtered_orders[k].customer_unique_id) } }

\* C1: a run whose window selects no row never raises, emits no finding and
\* leaves every summary table empty.
C1_EmptyWindowCompletes ==
    WindowIsEmpty =>
        /\ pc # "fault"
        /\ findings = << >>
        /\ rfm = << >>
        /\ category_summary = << >>
        /\ geo_summary = << >>
        /\ \A d \in 1..Len(daily_summary) :
               daily_summary[d].Total_Transactions \in { Null, Some(0) }

ScoredColumn == fn.done /\ fn.op = "score"
ColumnLen == Len(fn.arg.col)
BinSize(b) == Cardinality({ i \in 1..Len(fn.out.scores) : fn.out.scores[i] = b })

\* C2: among four customers with recencies 1, 5, 10 and 20 days, the customer
\* with recency 1 gets R_score 4.
C2_MostRecentInTopQuartile ==
    ( /\ ScoredColumn
      /\ fn.arg.metric = "recency"
      /\ ColumnLen = 4
      /\ Range(fn.arg.col) = { 1, 5, 10, 20 } ) =>
        /\ fn.out.error = ""
        /\ \A i \in 1..4 : fn.arg.col[i] = 1 => fn.out.scores[i] = 4

\* C3: every customer of the window has one RFM row, whose monetary is the
\* revenue of the customer's enriched rows in the window, each row once, and
\* whose frequency is the number of the customer's distinct orders there.
C3_RfmMatchesWindow ==
    "rfm" \in names =>
        /\ { rfm[i].customer_unique_id : i \in 1..Len(rfm) } = WindowCustomers
        /\ \A i \in 1..Len(rfm) :
               LET rows == WindowRows(rfm[i].customer_unique_id)
               IN  /\ rfm[i].monetary = WindowRevenue(rows)
                   /\ rfm[i].frequency =
                          Cardinality({ rows[k].order_id : k \in 1..Len(rows) })

\* C4: the revenues of the category rows add up to the revenue of the enriched
\* rows of the window, rows without a category included.
C4_CategoryRevenuePartitionsWindow ==
    "category_summary" \in names =>
        SumSeq(Column(category_summary, LAMBDA r : r.revenue))
            = WindowRevenue(filtered_orders)

SegmentApplied == fn.done /\ fn.op = "segment"

\* C5: the segment of a score triple is one of the five names and is the one of
\* the first rule of the priority list that the triple matches.
C5_SegmentFollowsPriority ==
    SegmentApplied =>
        LET R == fn.arg.R_score
            F == fn.arg.F_score
            M == fn.arg.M_score
        IN  /\ fn.out \in Range(SegmentNames)
            /\ (R >= 3 /\ F >= 3 /\ M >= 3) <=> fn.out = "Champions"
            /\ (R >= 3 /\ F >= 2 /\ ~(F >= 3 /\ M >= 3)) <=> fn.out = "Loyal Customers"
            /\ (R >= 3 /\ F < 2) <=> fn.out = "Potential Loyalists"
            /\ (R = 2) <=> fn.out = "Need Attention"
            /\ (R < 2) <=> fn.out = "Lost Customers"

\* the second rule wins over a high monetary score when frequency is 2
C5_Witness ==
    /\ SegmentApplied
    /\ fn.arg = [R_score |-> 4, F_score |-> 2, M_score |-> 4]
    /\ fn.out = "Loyal Customers"

Triple(r, f, m) == [R_score |-> r, F_score |-> f, M_score |-> m]

\* C6 as stated: (3,3,1) is Champions, (3,1,1) Potential Loyalists, (2,4,4) Need
\* Attention and (1,4,4) Lost Customers.
C6_ExamplesAsStated ==
    SegmentApplied =>
        /\ fn.arg = Triple(3, 3, 1) => fn.out = "Champions"
        /\ fn.arg = Triple(3, 1, 1) => fn.out = "Potential Loyalists"
        /\ fn.arg = Triple(2, 4, 4) => fn.out = "Need Attention"
        /\ fn.arg = Triple(1, 4, 4) => fn.out = "Lost Customers"

\* C6 amended: (3,3,1) is Loyal Customers, its monetary score being below 3; the
\* other three examples are as stated.
C6_Examples ==
    SegmentApplied =>
        /\ fn.arg = Triple(3, 3, 1) => fn.out = "Loyal Customers"
        /\ fn.arg = Triple(3, 1, 1) => fn.out = "Potential Loyalists"
        /\ fn.arg = Triple(2, 4, 4) => fn.out = "Need Attention"
        /\ fn.arg = Triple(1, 4, 4) => fn.out = "Lost Customers"

C6_Witness ==
    /\ SegmentApplied
    /\ fn.arg = Triple(3, 3, 1)
    /\ fn.out = "Loyal Customers"

\* C7: with one, two or three customers in the window the scoring does not
\* raise, and every customer gets three scores in 1..4 and a segment.
C7_FewCustomersAreScored ==
    ("rfm" \in names /\ Len(rfm) \in 1..3) =>
        /\ fault # "ValueError"
        /\ \A i \in 1..Len(rfm) :
               /\ { "R_score", "F_score", "M_score", "Segment" } \subseteq DOMAIN rfm[i]
               /\ rfm[i].R_score \in 1..4
               /\ rfm[i].F_score \in 1..4
               /\ rfm[i].M_score \in 1..4
               /\ rfm[i].Segment \in Range(SegmentNames)

\* C8: with four customers or more, each of the four scores of a column is given
\* to floor(N/4) or ceil(N/4) customers, whatever values of the column are equal.
C8_BinSizesBalanced ==
    (ScoredColumn /\ ColumnLen >= 4) =>
        /\ fn.out.error = ""
        /\ Len(fn.out.scores) = ColumnLen
        /\ \A b \in 1..4 :
               \/ BinSize(b) = ColumnLen \div 4
               \/ BinSize(b) = (ColumnLen + 3) \div 4

\* six customers of equal frequency: the scores still split 2, 1, 1, 2
C8_Witness ==
    /\ ScoredColumn
    /\ fn.arg.metric = "frequency"
    /\ ColumnLen = 6
    /\ \A i \in 1..6 : fn.arg.col[i] = 1
    /\ BinSize(1) = 2
    /\ BinSize(4) = 2

\* C9 as stated: when N >= 4 is no multiple of 4, the N mod 4 extra customers
\* are in the lowest scores, so the sizes do not increase from score 1 to 4.
C9_ExtrasInEarliestBins ==
    (ScoredColumn /\ ColumnLen >= 4 /\ ColumnLen % 4 # 0) =>
        /\ fn.out.error = ""
        /\ \A b \in 1..4 :
               BinSize(b) = ColumnLen \div 4 + (IF b <= ColumnLen % 4 THEN 1 ELSE 0)

\* the scores that hold one customer more than floor(N/4), by N mod 4
ExtraBins(r) ==
    CASE r = 0 -> {}
      [] r = 1 -> { 1 }
      [] r = 2 -> { 1, 4 }
      [] r = 3 -> { 1, 2, 4 }

\* C9 amended: when N >= 4 is no multiple of 4, the extra customers are in score 1
\* (N mod 4 = 1), scores 1 and 4 (N mod 4 = 2) or scores 1, 2 and 4 (N mod 4 = 3),
\* for recency, frequency and monetary alike.
C9_ExtrasByQuantileEdges ==
    (ScoredColumn /\ ColumnLen >= 4 /\ ColumnLen % 4 # 0) =>
        /\ fn.out.error = ""
        /\ \A b \in 1..4 :
               BinSize(b) = ColumnLen \div 4
                            + (IF b \in ExtraBins(ColumnLen % 4) THEN 1 ELSE 0)

\* six customers: sizes 2, 1, 1, 2
C9_Witness ==
    /\ ScoredColumn
    /\ fn.arg.metric = "monetary"
    /\ ColumnLen = 6
    /\ << BinSize(1), BinSize(2), BinSize(3), BinSize(4) >> = << 2, 1, 1, 2 >>

\* C10: for a window with rows, the day-of-week summary has the seven days from
\* Monday to Sunday, each with the number of the window's rows on that day, 0
\* for a day without rows.
C10_SevenDaysWithZeroCounts ==
    ("daily_summary" \in names /\ filtered_orders # << >>) =>
        /\ Len(daily_summary) = 7
        /\ \A d \in 1..7 :
               /\ daily_summary[d].order_purchase_timestamp = DayNames[d]
               /\ daily_summary[d].Total_Transactions =
                      Some(Cardinality({ i \in 1..Len(filtered_orders) :
                          DayOfWeek(filtered_orders[i].order_purchase_timestamp) = d - 1 }))

\* a row of filtered_orders without the column day_type that line 406 adds
WithoutDayType(r) == [f \in DOMAIN r \ { "day_type" } |-> r[f]]

\* the rows of the master dataset stamped from 00:00 of start_date up to, not
\* including, 00:00 of the day after end_date
RowsOfWindow ==
    { i \in 1..Len(orders_full) :
          /\ orders_full[i].order_purchase_timestamp >= start_date * HoursPerDay
          /\ orders_full[i].order_purchase_timestamp < (end_date + 1) * HoursPerDay }

\* C11: the filter keeps exactly the rows whose date lies in start_date..end_date,
\* both days included whatever the time of day, in their order; when every row
\* lies in the window the filtered table is the master dataset.
C11_FilterKeepsWindowRows ==
    "filtered_orders" \in names =>
        /\ Len(filtered_orders) = Cardinality(RowsOfWindow)
        /\ \A k \in 1..Len(filtered_orders) :
               LET i == CHOOSE j \in RowsOfWindow :
                            Cardinality({ h \in RowsOfWindow : h <= j }) = k
               IN  WithoutDayType(filtered_orders[k]) = orders_full[i]
        /\ RowsOfWindow = 1..Len(orders_full) =>
               [k \in 1..Len(filtered_orders) |-> WithoutDayType(filtered_orders[k])]
                   = orders_full

\* a row stamped 23:00 on end_date is kept while a later row is left out
C11_Witness ==
    /\ "filtered_orders" \in names
    /\ end_date = 372
    /\ \E k \in 1..Len(filtered_orders) :
           filtered_orders[k].order_purchase_timestamp = Ts(372, 23)
    /\ Len(filtered_orders) < Len(orders_full)

\* C12: a run whose start_date is after its end_date shows the warning and stops
\* with the two dates as entered: nothing is filtered, counted, aggregated,
\* scored or reported in it; whatever is computed is computed in a run whose
\* start_date is not after its end_date.
C12_InvalidRangeStopsRun ==
    /\ ("start_date" \in names /\ start_date > end_date) =>
           /\ pc = "stopped"
           /\ notices = << RangeWarning >>
           /\ "filtered_orders" \notin names
           /\ filtered_orders = << >>
           /\ kpi = NoKpi
           /\ rfm = << >>
           /\ daily_summary = << >>
           /\ category_summary = << >>
           /\ geo_summary = << >>
           /\ findings = << >>
           /\ fault = ""
    /\ pc = "stopped" => start_date > end_date
    /\ (pc \notin { "load", "sidebar", "stopped", "fn" }) => start_date <= end_date

\* start_date 2017-02-28, end_date 2017-01-01: stopped, the dates left as entered
C12_Witness ==
    /\ pc = "stopped"
    /\ start_date = 424
    /\ end_date = 366
    /\ notices = << RangeWarning >>
    /\ "filtered_orders" \notin names

WeekendRows == { k \in 1..Len(filtered_orders) : DayType(filtered_orders[k]) = "Weekend" }

WeekdayRows == { k \in 1..Len(filtered_orders) : DayType(filtered_orders[k]) = "Weekday" }

\* C13: once the transaction insights have run on a window that has rows, no
\* IndexError has been raised and exactly one of the two day-type findings is in
\* the report: Weekend-Dominant when the weekend rows outnumber the weekday rows,
\* Weekday-Dominant otherwise, a day type without rows counting as 0.
C13_DayTypeFindingAlwaysProduced ==
    ("daily_summary" \in names /\ filtered_orders # << >>) =>
        /\ fault # "IndexError"
        /\ "Weekend-Dominant Behavior" \in Range(findings)
               <=> Cardinality(WeekendRows) > Cardinality(WeekdayRows)
        /\ "Weekday-Dominant Behavior" \in Range(findings)
               <=> Cardinality(WeekendRows) <= Cardinality(WeekdayRows)

===========================================================================
